---- MODULE Spec2Model ----
(***************************************************************************)
(* Memory-latency micro-benchmark: the pointer-chain builder               *)
(* (generate_random_pointer_chasing) and the measurement harness           *)
(* (run_benchmark).                                                        *)
(***************************************************************************)
EXTENDS Integers, Sequences, FiniteSets, TLC

VARIABLES
    rng,        \* the draws std::shuffle takes from std::mt19937_64(seed)
    call,       \* arguments of the last generate_random_pointer_chasing call
    mem,        \* words stored into the buffer by that call (address -> value)
    ret,        \* returned entry address (nullptr = 0), NoReturn if it threw
    err,        \* exception thrown by that call, "none" if it returned
    invocation, \* calls made on the current (num_elements, seed) since the last release
    pc,         \* run_benchmark's position
    config,     \* run_benchmark's arguments and the resolved page size
    bench_buffer, \* the allocated buffer's address, nullptr while none is owned
    allocs,     \* allocate_aligned_buffer calls made by this run
    start_ptr,  \* the chain's entry address
    cstat,      \* each counter handle: "unopened", "open", "invalid", "closed"
    hw,         \* the hardware counters' current values
    trial,      \* the trial loop's index i
    step,       \* position inside the trial body (index into TrialBody)
    start,      \* the trial's readings before the traversal
    end,        \* the trial's readings after the traversal
    result,     \* the BenchmarkResult being built
    out,        \* rows printed to std::cout by this run
    errlog,     \* lines printed to std::cerr by this run
    ops,        \* counter operations of this run, in order (repeated reads as one)
    reads,      \* counter reads and kernel calls of the current trial, in order
    walks,      \* kernel calls made by this run
    measured    \* the counter deltas of the measured (non-warmup) trials so far

chainVars == <<rng, call, mem, ret, err, invocation>>

benchVars == <<pc, config, bench_buffer, allocs, start_ptr, cstat, hw, trial, step, start, end,
               result, out, errlog, ops, reads, walks, measured>>

vars == <<rng, call, mem, ret, err, invocation,
          pc, config, bench_buffer, allocs, start_ptr, cstat, hw, trial, step, start, end,
          result, out, errlog, ops, reads, walks, measured>>

----------------------------------------------------------------------------
(* Bounds of the chain builder's inputs *)

MaxElems == 3

Seeds == {42, 12345}

Buffers == {0, 8, 12, 16}

Strides == {0, 4, 8, 12, 16}

(* Platform constants: MemoryAddress is void*, 8 bytes wide and 8-aligned *)

AlignOfMemoryAddress == 8

SizeOfMemoryAddress == 8

nullptr == 0

\* the value of ret when the call threw instead of returning
NoReturn == 0 - 1

----------------------------------------------------------------------------
(* detail::generate_random_permutation *)

\* std::iota(indices.begin(), indices.end(), 0)
Iota(num_elements) == [k \in 0 .. num_elements - 1 |-> k]

\* std::iter_swap
IterSwap(indices, a, b) ==
    [indices EXCEPT ![a] = indices[b], ![b] = indices[a]]

\* std::shuffle: for i = 1 .. n-1, swap indices[i] with indices[d],
\* d drawn uniformly from 0 .. i out of the generator.
RECURSIVE ShuffleFrom(_, _, _, _)
ShuffleFrom(indices, i, num_elements, draws) ==
    IF i >= num_elements THEN indices
    ELSE ShuffleFrom(IterSwap(indices, i, draws[i]), i + 1, num_elements, draws)

generate_random_permutation(num_elements, seed) ==
    ShuffleFrom(Iota(num_elements), 1, num_elements, rng[seed])

\* detail::get_element_location
get_element_location(buffer, index, padded_bytes_per_element) ==
    buffer + index * padded_bytes_per_element

----------------------------------------------------------------------------
(* generate_random_pointer_chasing *)

\* *ptr = value
Store(m, ptr, value) ==
    [a \in (DOMAIN m) \cup {ptr} |-> IF a = ptr THEN value ELSE m[a]]

\* the linking loop: indices[i] -> indices[i+1] for i = 0 .. num_elements-2
RECURSIVE LinkFrom(_, _, _, _, _, _)
LinkFrom(m, i, indices, buffer, num_elements, padded_bytes_per_element) ==
    IF i >= num_elements - 1 THEN m
    ELSE LET current_ptr == get_element_location(buffer, indices[i], padded_bytes_per_element)
             next_ptr == get_element_location(buffer, indices[i + 1], padded_bytes_per_element)
         IN LinkFrom(Store(m, current_ptr, next_ptr), i + 1, indices, buffer,
                     num_elements, padded_bytes_per_element)

\* a closing store written the wrong way round: first slot -> last slot
LinkChain_ClosedBackwards(indices, buffer, num_elements, padded_bytes_per_element) ==
    LET linked == LinkFrom(<<>>, 0, indices, buffer, num_elements, padded_bytes_per_element)
        last_ptr == get_element_location(buffer, indices[num_elements - 1], padded_bytes_per_element)
        first_ptr == get_element_location(buffer, indices[0], padded_bytes_per_element)
    IN Store(linked, first_ptr, last_ptr)

\* links plus the closing store indices[num_elements-1] -> indices[0]
LinkChain(indices, buffer, num_elements, padded_bytes_per_element) ==
    LET linked == LinkFrom(<<>>, 0, indices, buffer, num_elements, padded_bytes_per_element)
        last_ptr == get_element_location(buffer, indices[num_elements - 1], padded_bytes_per_element)
        first_ptr == get_element_location(buffer, indices[0], padded_bytes_per_element)
    IN Store(linked, last_ptr, first_ptr)

\* the stride checks made before the buffer alignment check
ArgumentCheck_StrideFirst(buffer, num_elements, padded_bytes_per_element) ==
    IF buffer = nullptr \/ num_elements = 0 THEN "null"
    ELSE IF padded_bytes_per_element % AlignOfMemoryAddress # 0 THEN "StrideAlignmentError"
    ELSE IF padded_bytes_per_element < SizeOfMemoryAddress THEN "StrideTooSmallError"
    ELSE IF buffer % AlignOfMemoryAddress # 0 THEN "AlignmentError"
    ELSE "ok"

\* the argument checks made before the nothing-to-traverse test
ArgumentCheck_ValidateFirst(buffer, num_elements, padded_bytes_per_element) ==
    IF buffer % AlignOfMemoryAddress # 0 THEN "AlignmentError"
    ELSE IF padded_bytes_per_element % AlignOfMemoryAddress # 0 THEN "StrideAlignmentError"
    ELSE IF padded_bytes_per_element < SizeOfMemoryAddress THEN "StrideTooSmallError"
    ELSE IF buffer = nullptr \/ num_elements = 0 THEN "null"
    ELSE "ok"

\* the early return and the three std::invalid_argument throws, in source order;
\* each throw is named after the argument rule its message states
ArgumentCheck(buffer, num_elements, padded_bytes_per_element) ==
    IF buffer = nullptr \/ num_elements = 0 THEN "null"
    ELSE IF buffer % AlignOfMemoryAddress # 0 THEN "AlignmentError"
    ELSE IF padded_bytes_per_element % AlignOfMemoryAddress # 0 THEN "StrideAlignmentError"
    ELSE IF padded_bytes_per_element < SizeOfMemoryAddress THEN "StrideTooSmallError"
    ELSE "ok"

Outcome(r, e, m) == [ret |-> r, err |-> e, mem |-> m]

\* the generator seeded with the seed mixed with the buffer address
generate_random_pointer_chasing_AddressSeeded(buffer, num_elements, padded_bytes_per_element, seed) ==
    LET check == ArgumentCheck(buffer, num_elements, padded_bytes_per_element)
        mixed == IF (buffer \div AlignOfMemoryAddress) % 2 = 0 THEN seed
                 ELSE CHOOSE s \in Seeds : s # seed
    IN IF check = "null" THEN Outcome(nullptr, "none", <<>>)
       ELSE IF check # "ok" THEN Outcome(NoReturn, check, <<>>)
       ELSE LET indices == generate_random_permutation(num_elements, mixed)
            IN Outcome(get_element_location(buffer, indices[0], padded_bytes_per_element),
                       "none",
                       LinkChain(indices, buffer, num_elements, padded_bytes_per_element))

generate_random_pointer_chasing(buffer, num_elements, padded_bytes_per_element, seed) ==
    LET check == ArgumentCheck(buffer, num_elements, padded_bytes_per_element)
    IN IF check = "null" THEN Outcome(nullptr, "none", <<>>)
       ELSE IF check # "ok" THEN Outcome(NoReturn, check, <<>>)
       ELSE LET indices == generate_random_permutation(num_elements, seed)
            IN Outcome(get_element_location(buffer, indices[0], padded_bytes_per_element),
                       "none",
                       LinkChain(indices, buffer, num_elements, padded_bytes_per_element))

----------------------------------------------------------------------------
(* run_benchmark: constants and helpers *)

NUM_LOGICAL_LOADS == 1000000

NUM_TRIALS == 10

NUM_WARMUPS == 3

RAND_SEED == 12345

\* std::numeric_limits<uint64_t>::max(), as the largest value the model's
\* integers hold
UINT64_MAX == 2147483647

\* sysconf(_SC_PAGESIZE) and Hugepagesize of /proc/meminfo (2048 kB)
PageSize == 4096

HugepageSize == 2097152

\* Bounds of the harness' inputs: the ticks the five hardware counters make
\* during one run, and the arguments of run_benchmark
MaxTicks == 2

\* <<buffer_size_in_bytes, padded_bytes_per_element>>
Sizes == {<<0, 16>>, <<16, 16>>, <<24, 16>>, <<24, 12>>}

CYCLES == "CYCLES"

L1D == "L1D_MISS"

L2 == "L2_MISS"

L3 == "L3_MISS"

TLB == "TLB_MISS"

Counters == {CYCLES, L1D, L2, L3, TLB}

MissCounters == {L1D, L2, L3, TLB}

KERNEL == "kernel"

NoConfig == [buffer_size_in_bytes |-> 0, padded_bytes_per_element |-> 0,
             use_hugepage |-> FALSE, page_size |-> 0]

NoReadings == [c \in Counters |-> 0]

NoResult == [buffer_size |-> 0, padded_element_size |-> 0, page_size |-> 0,
             num_logical_loads |-> 0, cycle_count |-> 0, l1d_miss_count |-> 0,
             l2_miss_count |-> 0, l3_miss_count |-> 0, tlb_miss_count |-> 0]

\* BenchmarkResult{buffer_size, padded_element_size, page_size, num_logical_loads}
\* with the default member initialisers
BenchmarkResult(buffer_size, padded_element_size, page_size, num_logical_loads) ==
    [buffer_size |-> buffer_size, padded_element_size |-> padded_element_size,
     page_size |-> page_size, num_logical_loads |-> num_logical_loads,
     cycle_count |-> UINT64_MAX, l1d_miss_count |-> 0, l2_miss_count |-> 0,
     l3_miss_count |-> 0, tlb_miss_count |-> 0]

\* the size test negated
SizeRejected_Negated(buffer_size_in_bytes, padded_bytes_per_element) ==
    buffer_size_in_bytes % padded_bytes_per_element = 0

\* buffer_size_in_bytes % padded_bytes_per_element != 0
SizeRejected(buffer_size_in_bytes, padded_bytes_per_element) ==
    buffer_size_in_bytes % padded_bytes_per_element # 0

\* the descriptor of an opened counter
FdOf(c) ==
    CASE c = CYCLES -> 3 [] c = L1D -> 4 [] c = L2 -> 5 [] c = L3 -> 6 [] c = TLB -> 7

\* the order the counters are opened in
OpenOrder == <<CYCLES, L1D, L2, L3, TLB>>

\* the abandoning closes without the leader
AbandonOrder_LeaderLeftOpen == <<L1D, L2, L3, TLB>>

\* the order close_counter is applied in when a follower failed to open
AbandonOrder == <<L1D, L2, L3, TLB, CYCLES>>

\* the trial body with the start-cycle read hoisted above the miss reads
TrialBody_CyclesFirst ==
    <<CYCLES, L1D, L2, L3, TLB, KERNEL, CYCLES, TLB, L3, L2, L1D>>

\* the trial body: the reads before the traversal, the traversal, the reads after
TrialBody ==
    <<L1D, L2, L3, TLB, CYCLES, KERNEL, CYCLES, TLB, L3, L2, L1D>>

\* the closing order with the leader closed first
TeardownOrder_LeaderFirst == <<CYCLES, L1D, L2, L3, TLB>>

\* the order the counters are closed in after the trials
TeardownOrder == <<TLB, L3, L2, L1D, CYCLES>>

\* the update test without the warmup exclusion
ShouldUpdate_WarmupsCount(idx, latency_cycles, cycle_count) ==
    latency_cycles < cycle_count

\* the update test keeping the largest latency
ShouldUpdate_Largest(idx, latency_cycles, cycle_count) ==
    idx >= NUM_WARMUPS /\ (cycle_count = UINT64_MAX \/ latency_cycles > cycle_count)

\* i >= NUM_WARMUPS && latency_cycles < result.cycle_count
ShouldUpdate(idx, latency_cycles, cycle_count) ==
    idx >= NUM_WARMUPS /\ latency_cycles < cycle_count

\* the miss deltas stored crosswise (L1D <-> TLB)
StoreTrial_Crossed(res, s, e) ==
    [res EXCEPT !.cycle_count = e[CYCLES] - s[CYCLES],
                !.l1d_miss_count = e[TLB] - s[TLB],
                !.l2_miss_count = e[L2] - s[L2],
                !.l3_miss_count = e[L3] - s[L3],
                !.tlb_miss_count = e[L1D] - s[L1D]]

\* the assignments made when a trial is retained
StoreTrial(res, s, e) ==
    [res EXCEPT !.cycle_count = e[CYCLES] - s[CYCLES],
                !.l1d_miss_count = e[L1D] - s[L1D],
                !.l2_miss_count = e[L2] - s[L2],
                !.l3_miss_count = e[L3] - s[L3],
                !.tlb_miss_count = e[TLB] - s[TLB]]

Sum(f) == f[CYCLES] + f[L1D] + f[L2] + f[L3] + f[TLB]

\* perf_counter_read: a monotonic 64-bit count, so a reading is at least the
\* counter's last reading
perf_counter_read(c) == {v \in hw[c] .. hw[c] + MaxTicks : Sum(hw) - hw[c] + v <= MaxTicks}

\* walk_pointer_chain<NUM_LOGICAL_LOADS>: dependent loads from p; loading through
\* a null pointer is undefined
walk_pointer_chain(p) == IF p = nullptr THEN {"returned", "crashed"} ELSE {"returned"}

RECURSIVE CloseAll(_, _, _)
\* perf_counter_close on each counter of order, from position k on
CloseAll(log, order, k) ==
    IF k > Len(order) THEN log
    ELSE CloseAll(Append(log, <<"close", order[k]>>), order, k + 1)

RECURSIVE CloseValid(_, _, _, _)
\* close_counter on each counter of order: perf_counter_close if it is valid
CloseValid(log, order, k, stat) ==
    IF k > Len(order) THEN log
    ELSE CloseValid(IF stat[order[k]] = "open"
                        THEN Append(log, <<"close", order[k]>>) ELSE log,
                    order, k + 1, stat)

InSeq(x, sq) == \E k \in 1 .. Len(sq) : sq[k] = x

----------------------------------------------------------------------------
(* run_benchmark: the state machine *)

NoCall == [buffer |-> nullptr, num_elements |-> 0, padded_bytes_per_element |-> 0, seed |-> 0]

DrawTables == {t \in [1 .. MaxElems - 1 -> 0 .. MaxElems - 1] : \A k \in DOMAIN t : t[k] <= k}

BenchIdle ==
    /\ pc = "idle"
    /\ config = NoConfig
    /\ bench_buffer = nullptr
    /\ allocs = 0
    /\ start_ptr = nullptr
    /\ cstat = [c \in Counters |-> "unopened"]
    /\ hw = [c \in Counters |-> 0]
    /\ trial = 0
    /\ step = 0
    /\ start = NoReadings
    /\ end = NoReadings
    /\ result = NoResult
    /\ out = <<>>
    /\ errlog = <<>>
    /\ ops = <<>>
    /\ reads = <<>>
    /\ walks = 0
    /\ measured = {}

\* main before the first run_benchmark call; the harness depends on the chain only
\* through its entry address, so one draw table stands for the generator
BenchInit ==
    /\ BenchIdle
    /\ rng = [s \in Seeds |-> [k \in 1 .. MaxElems - 1 |-> 0]]
    /\ call = NoCall
    /\ mem = <<>>
    /\ ret = NoReturn
    /\ err = "none"
    /\ invocation = 0

\* run_benchmark up to the first counter open: the size test, the page size
\* query, the allocation, madvise and the chain construction
Setup ==
    /\ pc = "idle"
    /\ \E sizes \in Sizes, use_hugepage \in BOOLEAN, query_ok \in BOOLEAN,
          alloc_ok \in BOOLEAN, madvise_ok \in BOOLEAN :
        LET buffer_size_in_bytes == sizes[1]
            padded_bytes_per_element == sizes[2]
            page_size == IF use_hugepage THEN HugepageSize ELSE PageSize
            num_elements == buffer_size_in_bytes \div padded_bytes_per_element
            chain == generate_random_pointer_chasing(page_size, num_elements,
                                                     padded_bytes_per_element, RAND_SEED)
            cfg == [buffer_size_in_bytes |-> buffer_size_in_bytes,
                    padded_bytes_per_element |-> padded_bytes_per_element,
                    use_hugepage |-> use_hugepage, page_size |-> 0]
            warned == IF madvise_ok THEN <<>> ELSE <<"Warning: madvise failed">>
        IN IF SizeRejected(buffer_size_in_bytes, padded_bytes_per_element)
           THEN /\ query_ok /\ alloc_ok /\ madvise_ok
                /\ config' = cfg
                /\ errlog' = <<"Error: buffer_size_in_bytes must be a multiple">>
                /\ pc' = "returned"
                /\ UNCHANGED <<bench_buffer, allocs, start_ptr>>
           ELSE IF ~query_ok
           THEN /\ alloc_ok /\ madvise_ok
                /\ config' = cfg
                /\ pc' = "threw"
                /\ UNCHANGED <<bench_buffer, allocs, start_ptr, errlog>>
           ELSE IF ~alloc_ok
           THEN /\ madvise_ok
                /\ config' = [cfg EXCEPT !.page_size = page_size]
                /\ allocs' = allocs + 1
                /\ pc' = "threw"
                /\ UNCHANGED <<bench_buffer, start_ptr, errlog>>
           ELSE IF chain.err # "none"
           THEN /\ config' = [cfg EXCEPT !.page_size = page_size]
                /\ allocs' = allocs + 1
                /\ errlog' = warned
                /\ pc' = "threw"
                /\ UNCHANGED <<bench_buffer, start_ptr>>
           ELSE /\ config' = [cfg EXCEPT !.page_size = page_size]
                /\ allocs' = allocs + 1
                /\ bench_buffer' = page_size
                /\ errlog' = warned
                /\ start_ptr' = chain.ret
                /\ pc' = "open_leader"
    /\ UNCHANGED <<cstat, hw, trial, step, start, end, result, out, ops, reads, walks,
                   measured, chainVars>>

\* open_counter(CYCLES_EVENT, -1) and the return when it is not valid
OpenLeader ==
    /\ pc = "open_leader"
    /\ \E valid \in BOOLEAN :
        /\ ops' = Append(ops, <<"open", CYCLES, -1>>)
        /\ cstat' = [cstat EXCEPT ![CYCLES] = IF valid THEN "open" ELSE "invalid"]
        /\ IF valid
           THEN /\ step' = 2
                /\ pc' = "open_followers"
                /\ UNCHANGED <<errlog, bench_buffer>>
           ELSE /\ errlog' = Append(errlog, <<"Error: Failed to open", CYCLES>>)
                /\ bench_buffer' = nullptr
                /\ pc' = "returned"
                /\ UNCHANGED step
    /\ UNCHANGED <<config, allocs, start_ptr, hw, trial, start, end, result, out, reads,
                   walks, measured, chainVars>>

\* open_counter(<follower event>, group_fd), for the four followers in turn
OpenFollower ==
    /\ pc = "open_followers"
    /\ \E valid \in BOOLEAN :
        LET c == OpenOrder[step]
            group_fd == FdOf(CYCLES)
            stat == [cstat EXCEPT ![c] = IF valid THEN "open" ELSE "invalid"]
        IN /\ ops' = Append(ops, <<"open", c, group_fd>>)
           /\ cstat' = stat
           /\ errlog' = IF valid THEN errlog
                        ELSE Append(errlog, <<"Error: Failed to open", c>>)
           /\ IF step < Len(OpenOrder)
              THEN step' = step + 1 /\ pc' = pc
              ELSE /\ step' = 0
                   /\ pc' = IF \E m \in MissCounters : stat[m] # "open"
                            THEN "abandon" ELSE "enable"
    /\ UNCHANGED <<config, bench_buffer, allocs, start_ptr, hw, trial, start, end, result, out,
                   reads, walks, measured, chainVars>>

\* a follower is not valid: close_counter on all five and return
AbandonGroup ==
    /\ pc = "abandon"
    /\ ops' = CloseValid(ops, AbandonOrder, 1, cstat)
    /\ cstat' = [c \in Counters |->
                    IF cstat[c] = "open" /\ InSeq(c, AbandonOrder) THEN "closed"
                    ELSE cstat[c]]
    /\ bench_buffer' = nullptr
    /\ pc' = "returned"
    /\ UNCHANGED <<config, allocs, start_ptr, hw, trial, step, start, end, result, out,
                   errlog, reads, walks, measured, chainVars>>

\* perf_counter_enable(&cycle_counter) and the construction of result
Enable ==
    /\ pc = "enable"
    /\ ops' = Append(ops, <<"enable", CYCLES>>)
    /\ result' = BenchmarkResult(config.buffer_size_in_bytes,
                                 config.padded_bytes_per_element,
                                 config.page_size, NUM_LOGICAL_LOADS)
    /\ trial' = 0
    /\ step' = 1
    /\ pc' = "trial"
    /\ UNCHANGED <<config, bench_buffer, allocs, start_ptr, cstat, hw, start, end, out,
                   errlog, reads, walks, measured, chainVars>>

\* one perf_counter_read of the trial body
ReadCounter ==
    /\ pc = "trial"
    /\ step <= Len(TrialBody)
    /\ TrialBody[step] # KERNEL
    /\ LET c == TrialBody[step]
       IN \E v \in perf_counter_read(c) :
            /\ hw' = [hw EXCEPT ![c] = v]
            /\ IF walks <= trial
               THEN start' = [start EXCEPT ![c] = v] /\ UNCHANGED end
               ELSE end' = [end EXCEPT ![c] = v] /\ UNCHANGED start
            /\ reads' = Append(reads, c)
            /\ ops' = IF ops[Len(ops)] = <<"read">> THEN ops ELSE Append(ops, <<"read">>)
    /\ step' = step + 1
    /\ UNCHANGED <<pc, config, bench_buffer, allocs, start_ptr, cstat, trial, result, out,
                   errlog, walks, measured, chainVars>>

\* kernel(start_ptr)
Kernel ==
    /\ pc = "trial"
    /\ step <= Len(TrialBody)
    /\ TrialBody[step] = KERNEL
    /\ reads' = Append(reads, KERNEL)
    /\ walks' = walks + 1
    /\ \E outcome \in walk_pointer_chain(start_ptr) :
        IF outcome = "returned"
        THEN step' = step + 1 /\ pc' = pc
        ELSE step' = 0 /\ pc' = "crashed"
    /\ UNCHANGED <<config, bench_buffer, allocs, start_ptr, cstat, hw, trial, start, end, result,
                   out, errlog, ops, measured, chainVars>>

\* the end of the trial body: latency_cycles, the update of result, ++trial
TrialEnd ==
    /\ pc = "trial"
    /\ step = Len(TrialBody) + 1
    /\ LET latency_cycles == end[CYCLES] - start[CYCLES]
           retained == ShouldUpdate(trial, latency_cycles, result.cycle_count)
       IN result' = IF retained THEN StoreTrial(result, start, end) ELSE result
    /\ measured' = IF trial >= NUM_WARMUPS
                    THEN measured \cup {[c \in Counters |-> end[c] - start[c]]}
                    ELSE measured
    /\ trial' = trial + 1
    /\ start' = NoReadings
    /\ end' = NoReadings
    /\ reads' = <<>>
    /\ IF trial + 1 < NUM_WARMUPS + NUM_TRIALS
       THEN step' = 1 /\ pc' = pc
       ELSE step' = 0 /\ pc' = "teardown"
    /\ UNCHANGED <<config, bench_buffer, allocs, start_ptr, cstat, hw, out, errlog, ops,
                   walks, chainVars>>

\* perf_counter_disable, the five perf_counter_close, print_csv_row, return
Teardown ==
    /\ pc = "teardown"
    /\ ops' = Append(CloseAll(Append(ops, <<"disable", CYCLES>>), TeardownOrder, 1),
                     <<"print">>)
    /\ cstat' = [c \in Counters |-> IF InSeq(c, TeardownOrder) THEN "closed" ELSE cstat[c]]
    /\ out' = Append(out, result)
    /\ bench_buffer' = nullptr
    /\ pc' = "returned"
    /\ UNCHANGED <<config, allocs, start_ptr, hw, trial, step, start, end, result, errlog,
                   reads, walks, measured, chainVars>>

\* main's loop calls run_benchmark for the next configuration
NextConfiguration ==
    /\ pc = "returned"
    /\ pc' = "idle"
    /\ config' = NoConfig
    /\ bench_buffer' = nullptr
    /\ allocs' = 0
    /\ start_ptr' = nullptr
    /\ cstat' = [c \in Counters |-> "unopened"]
    /\ hw' = [c \in Counters |-> 0]
    /\ trial' = 0
    /\ step' = 0
    /\ start' = NoReadings
    /\ end' = NoReadings
    /\ result' = NoResult
    /\ out' = <<>>
    /\ errlog' = <<>>
    /\ ops' = <<>>
    /\ reads' = <<>>
    /\ walks' = 0
    /\ measured' = {}
    /\ UNCHANGED chainVars

BenchNext ==
    \/ Setup
    \/ OpenLeader
    \/ OpenFollower
    \/ AbandonGroup
    \/ Enable
    \/ ReadCounter
    \/ Kernel
    \/ TrialEnd
    \/ Teardown
    \/ NextConfiguration

BenchSpec == BenchInit /\ [][BenchNext]_vars

----------------------------------------------------------------------------
(* State machine of the chain builder *)

ChainInit ==
    /\ BenchIdle
    /\ rng \in [Seeds -> DrawTables]
    /\ call = NoCall
    /\ mem = <<>>
    /\ ret = NoReturn
    /\ err = "none"
    /\ invocation = 0

\* A caller invokes generate_random_pointer_chasing on a fresh buffer; once a
\* chain was built, a second invocation repeats (num_elements, seed) on another
\* buffer base or stride.
BuildChain ==
    \E buffer \in Buffers, num_elements \in 0 .. MaxElems,
       padded_bytes_per_element \in Strides, seed \in Seeds :
        LET built == generate_random_pointer_chasing(buffer, num_elements,
                                                   padded_bytes_per_element, seed)
        IN /\ \/ invocation = 0
              \/ /\ invocation = 1
                 /\ err = "none"
                 /\ ret # nullptr
                 /\ num_elements = call.num_elements
                 /\ seed = call.seed
                 /\ <<buffer, padded_bytes_per_element>> #
                        <<call.buffer, call.padded_bytes_per_element>>
           /\ call' = [buffer |-> buffer, num_elements |-> num_elements,
                       padded_bytes_per_element |-> padded_bytes_per_element, seed |-> seed]
           /\ mem' = built.mem
           /\ ret' = built.ret
           /\ err' = built.err
           /\ invocation' = invocation + 1
           /\ UNCHANGED <<rng, benchVars>>

\* The caller discards its buffers (unique_ptr with std::free as deleter).
Release ==
    /\ invocation > 0
    /\ call' = NoCall
    /\ mem' = <<>>
    /\ ret' = NoReturn
    /\ err' = "none"
    /\ invocation' = 0
    /\ UNCHANGED <<rng, benchVars>>

ChainNext == BuildChain \/ Release

ChainSpec == ChainInit /\ [][ChainNext]_vars

----------------------------------------------------------------------------
(* Properties of the chain builder *)

Returned == invocation > 0 /\ err = "none"

Threw == invocation > 0 /\ err # "none"

Built == Returned /\ ret # nullptr

\* the word read at address a: what was stored there, garbage (-1) otherwise
Load(m, a) == IF a \in DOMAIN m THEN m[a] ELSE -1

\* the address reached from a after k dependent loads
RECURSIVE Walk(_, _, _)
Walk(m, a, k) == IF k = 0 THEN a ELSE Walk(m, Load(m, a), k - 1)

SlotAddrs(c) ==
    {c.buffer + i * c.padded_bytes_per_element : i \in 0 .. c.num_elements - 1}

\* C1: a chain that was built is one cycle over all slots: the num_elements
\* addresses reached in steps 0 .. num_elements-1 from the entry are exactly the
\* slot addresses, each once; step num_elements is back at the entry and no
\* earlier step is.
C1_SingleCycle ==
    Built =>
        LET n == call.num_elements
            visited == {Walk(mem, ret, k) : k \in 0 .. n - 1}
        IN /\ visited = SlotAddrs(call)
           /\ Cardinality(visited) = n
           /\ Walk(mem, ret, n) = ret
           /\ \A k \in 1 .. n - 1 : Walk(mem, ret, k) # ret

C1_Witness ==
    /\ Built
    /\ call.num_elements = MaxElems
    /\ call.buffer = 16
    /\ call.padded_bytes_per_element = 16
    /\ ret # call.buffer
    /\ Walk(mem, ret, 1) # ret + call.padded_bytes_per_element

Misaligned(x) == x % AlignOfMemoryAddress # 0

ChainRequested == invocation > 0 /\ call.buffer # nullptr /\ call.num_elements >= 1

\* C5 as stated: each violated argument rule yields its own error, whatever
\* the other arguments are, and a failing call writes nothing and returns nothing.
C5_EachRuleItsOwnError ==
    ChainRequested =>
        /\ Misaligned(call.buffer) => err = "AlignmentError"
        /\ Misaligned(call.padded_bytes_per_element) => err = "StrideAlignmentError"
        /\ call.padded_bytes_per_element < SizeOfMemoryAddress => err = "StrideTooSmallError"
        /\ Threw => mem = <<>> /\ ret = NoReturn

\* C5 amended: the first violated rule, in the order buffer alignment, stride
\* alignment, stride width, decides the error; a failing call writes nothing and
\* returns nothing.
C5_FirstViolatedRuleDecides ==
    ChainRequested =>
        /\ Misaligned(call.buffer) => err = "AlignmentError"
        /\ (~Misaligned(call.buffer) /\ Misaligned(call.padded_bytes_per_element))
              => err = "StrideAlignmentError"
        /\ (~Misaligned(call.buffer) /\ ~Misaligned(call.padded_bytes_per_element)
              /\ call.padded_bytes_per_element < SizeOfMemoryAddress)
              => err = "StrideTooSmallError"
        /\ Threw => mem = <<>> /\ ret = NoReturn

C5_Witness ==
    /\ ChainRequested
    /\ Misaligned(call.buffer)
    /\ call.padded_bytes_per_element = 4
    /\ err = "AlignmentError"
    /\ mem = <<>>

\* C6: a call with a null buffer or with no elements returns nullptr, throws
\* nothing whatever the stride and the alignment are, and stores nothing.
C6_NothingToTraverse ==
    (invocation > 0 /\ (call.buffer = nullptr \/ call.num_elements = 0)) =>
        /\ ret = nullptr
        /\ err = "none"
        /\ mem = <<>>

C6_Witness ==
    /\ invocation > 0
    /\ call.num_elements = 0
    /\ Misaligned(call.buffer)
    /\ call.padded_bytes_per_element = 4
    /\ ret = nullptr

\* the chain in slot indices: the entry slot and every slot's successor slot
Topology(c, m, r) ==
    [entry |-> (r - c.buffer) \div c.padded_bytes_per_element,
     next |-> [k \in 0 .. c.num_elements - 1 |->
                 (Load(m, c.buffer + k * c.padded_bytes_per_element) - c.buffer)
                     \div c.padded_bytes_per_element]]

\* C7: two invocations with the same (num_elements, seed) that both build a
\* chain build the same chain in slot indices, whatever the two buffer bases
\* and strides are.
C7_Deterministic ==
    [][(/\ Built
        /\ Built'
        /\ call'.num_elements = call.num_elements
        /\ call'.seed = call.seed)
       => Topology(call', mem', ret') = Topology(call, mem, ret)]_vars

C7_Witness ==
    /\ Built
    /\ invocation = 2
    /\ call.num_elements = MaxElems
    /\ call.buffer = 16
    /\ call.padded_bytes_per_element = 16
    /\ Topology(call, mem, ret).entry # 0

----------------------------------------------------------------------------
(* Properties of run_benchmark *)

Emitted == Len(out) = 1

\* the deltas a printed row reports, per counter
RowDeltas(row) ==
    (CYCLES :> row.cycle_count) @@ (L1D :> row.l1d_miss_count)
        @@ (L2 :> row.l2_miss_count) @@ (L3 :> row.l3_miss_count)
        @@ (TLB :> row.tlb_miss_count)

\* C2: the printed row comes after all 13 trials; its cycle count is the least
\* end-minus-start cycle delta of the measured trials (3 .. 12), and its five
\* counts together are the deltas of one measured trial, so the miss counts are
\* those of a minimum-cycle trial and a warmup trial never supplies them.
C2_MinimumOfMeasuredTrials ==
    Emitted =>
        /\ trial = 13
        /\ RowDeltas(out[1]) \in measured
        /\ \A r \in measured : out[1].cycle_count <= r[CYCLES]

C2_Witness ==
    /\ Emitted
    /\ out[1].cycle_count = 0
    /\ out[1].l1d_miss_count = 1
    /\ \E r \in measured : r[CYCLES] = 1 /\ r[L1D] = 0

\* C3: a buffer size that is no multiple of the element size makes run_benchmark
\* return at once: one error line, no row, no allocation, no counter opened.
C3_SizeMismatchSkipped ==
    (/\ pc # "idle"
     /\ config.buffer_size_in_bytes % config.padded_bytes_per_element # 0) =>
        /\ pc = "returned"
        /\ errlog = <<"Error: buffer_size_in_bytes must be a multiple">>
        /\ out = <<>>
        /\ allocs = 0
        /\ bench_buffer = nullptr
        /\ ops = <<>>
        /\ \A c \in Counters : cstat[c] = "unopened"

C3_Witness ==
    /\ pc = "returned"
    /\ config.buffer_size_in_bytes = 24
    /\ config.padded_bytes_per_element = 16
    /\ Len(errlog) = 1

AnyInvalid == \E c \in Counters : cstat[c] = "invalid"

Closes(c) == Cardinality({k \in 1 .. Len(ops) : ops[k] = <<"close", c>>})

\* C4: once a counter failed to open the run never enables or reads a counter,
\* never runs the kernel and prints no row; it returns, and on return every
\* counter that did open has been closed exactly once and none is left open.
C4_AbandonOnOpenFailure ==
    AnyInvalid =>
        /\ pc \in {"open_followers", "abandon", "returned"}
        /\ \A k \in 1 .. Len(ops) : ops[k][1] \in {"open", "close"}
        /\ walks = 0
        /\ out = <<>>
        /\ pc = "returned" =>
            \A c \in Counters :
                /\ cstat[c] \in {"invalid", "closed", "unopened"}
                /\ Closes(c) = IF cstat[c] = "closed" THEN 1 ELSE 0
                /\ cstat[c] = "unopened" => cstat[CYCLES] = "invalid"

C4_Witness ==
    /\ pc = "returned"
    /\ cstat[CYCLES] = "closed"
    /\ cstat[L1D] = "invalid"
    /\ cstat[L2] = "closed"
    /\ cstat[L3] = "invalid"
    /\ cstat[TLB] = "closed"

\* C8 as stated: with zero elements (a null entry point) the kernel is never
\* called and the row that is printed holds the initial values: cycle count
\* UINT64_MAX and all four miss counts 0.
C8_NullEntryIsNoOp ==
    (/\ pc \notin {"idle", "threw"}
     /\ config.buffer_size_in_bytes = 0
     /\ start_ptr = nullptr) =>
        /\ walks = 0
        /\ Emitted => out[1] = BenchmarkResult(config.buffer_size_in_bytes,
                                               config.padded_bytes_per_element,
                                               config.page_size, NUM_LOGICAL_LOADS)

Min(a, b) == IF a < b THEN a ELSE b

\* C9: in each of the 13 trials the operations are: the four miss counters, the
\* cycle counter, the kernel, the cycle counter, the four miss counters in the
\* mirror order; so nothing but the kernel lies between the two cycle reads.
C9_ReadOrder ==
    /\ pc = "trial" =>
        /\ trial < 13
        /\ Len(reads) = step - 1
        /\ Len(reads) <= 11
        /\ \A k \in 1 .. Len(reads) :
            /\ k <= 4 => reads[k] \in MissCounters
            /\ k = 5 => reads[k] = CYCLES
            /\ k = 6 => reads[k] = KERNEL
            /\ k = 7 => reads[k] = CYCLES
            /\ k >= 8 => reads[k] = reads[12 - k]
        /\ Cardinality({reads[k] : k \in 1 .. Min(Len(reads), 4)}) = Min(Len(reads), 4)
    /\ pc = "teardown" => trial = 13 /\ walks = 13

C9_Witness ==
    /\ pc = "trial"
    /\ trial = 12
    /\ Len(reads) = 11

IsPrefix(sq, full) ==
    /\ Len(sq) <= Len(full)
    /\ \A k \in 1 .. Len(sq) : sq[k] = full[k]

\* the lifecycle the claim states, reads standing between enable and disable
ClaimedLifecycle ==
    << <<"open", CYCLES, -1>>, <<"open", L1D, FdOf(CYCLES)>>, <<"open", L2, FdOf(CYCLES)>>,
       <<"open", L3, FdOf(CYCLES)>>, <<"open", TLB, FdOf(CYCLES)>>,
       <<"enable", CYCLES>>, <<"read">>, <<"disable", CYCLES>>,
       <<"close", TLB>>, <<"close", L3>>, <<"close", L2>>, <<"close", L1D>>,
       <<"close", CYCLES>>, <<"print">> >>

\* C10: while no counter failed to open, the counter operations follow the
\* claimed lifecycle: leader then followers opened against the leader's
\* descriptor, enable, the reads, disable, the closes in reverse open order,
\* each once, and the row printed last; a row is printed only by a complete one.
C10_Lifecycle ==
    ~AnyInvalid =>
        /\ IsPrefix(ops, ClaimedLifecycle)
        /\ Emitted <=> ops = ClaimedLifecycle
        /\ Emitted => \A c \in Counters : cstat[c] = "closed"

C10_Witness ==
    /\ Emitted
    /\ pc = "returned"
    /\ start_ptr # nullptr
    /\ ops = ClaimedLifecycle

====
